---- MODULE Spec2Model ----
(***************************************************************************)
(* Model of the gadget client library (sysdream/gadget-client):            *)
(*   - gadget/mapping.py  Registry, maptype, Object, Method                *)
(*   - gadget/proto.py    Protocol._call, list_applications, Service       *)
(*   - gadget/types.py    Class, Null, Integer, Boolean, String            *)
(*                                                                         *)
(* Eight specifications share the module:                                   *)
(*   SpecRegistry     the class mapping registry (register / resolve)      *)
(*   SpecCall         one Protocol instance issuing calls over its socket  *)
(*   SpecObject       remote objects, their caches and their entry points  *)
(*   SpecInvoke       method and constructor calls, field assignments      *)
(*   SpecBoot         the construction of an Application                   *)
(*   SpecThreads      two threads calling on one Protocol instance         *)
(*   SpecEntryPoints  the list of entry points of the Service              *)
(*   SpecArgs         the resolution of the arguments of one invocation    *)
(***************************************************************************)
EXTENDS Integers, Sequences, FiniteSets, TLC

VARIABLES
    \* ---- gadget/mapping.py, class Registry
    mappings,      \* Registry.mappings: dict Java class name -> Python class
    loaded,        \* TRUE once gadget.mapping has been imported (line 124 ran)
    regLog,        \* history: the register calls made so far, oldest first
    resolveArg,    \* classnames of the last Registry.resolve call
    resolveOut     \* what that call returned, or the error it raised

VARIABLES
    \* ---- gadget/proto.py, Protocol._call on the socket of one Protocol
    pc,            \* where the call is: "idle", "send", "recvlen", "recvbody", "done"
    request,       \* local request (line 69), as bytes
    length,        \* local length (line 75); -1 while unset
    result,        \* local result (line 77), the payload bytes accumulated
    response,      \* local response (line 86), the decoded dict; {} while unset
    outcome,       \* what the call returned or raised
    outbound,      \* bytes of this call's message the transport accepted
    inbound,       \* bytes the peer has queued for the socket, not yet read
    eof,           \* the peer has closed the stream
    desync,        \* an earlier message reached the peer incomplete
    reply,         \* history: the payload the peer answered this call with,
                   \*   when nothing unread of an earlier answer precedes it
    zeroRead,      \* history: the last socket.recv returned no bytes
    nsend,         \* history: socket.send invocations of this call
    nrecvlen,      \* history: length prefixes read by this call
    ncalls,        \* calls started on this Protocol instance
    broken         \* history: a call on this Protocol instance failed on a
                   \*   short length prefix, a short payload or a closed stream

VARIABLES
    \* ---- gadget/mapping.py, class Object and its subclasses
    objs,          \* the proxy objects constructed so far, in creation order
    lastOp,        \* the last operation on the objects: what it was called
                   \*   on, the remote calls it issued, what it returned
    nops,          \* operations made on the objects so far
    entry_points   \* Service.entry_points: << >> for None, else <<list>>,
                   \*   the list holding <<id>> per object and << >> per None

VARIABLES
    \* ---- gadget/proto.py, Application.__init__ and what it calls
    appPc,         \* where the construction is: "idle", "list_connect",
                   \*   "list_call", "assert", "connect", "connectApp",
                   \*   "done", "failed"
    app,           \* the application identifier handed to Application
    apps,          \* what list_applications returned: <<list>>, << >> for
                   \*   None or while it has not returned
    sock,          \* local sock of list_applications: "none", "created"
                   \*   (not connected), "open", "closed"
    psock,         \* self._socket of the Protocol instance, likewise
    wire,          \* history: connections opened and closed and requests
                   \*   sent, in order
    nboots         \* Application constructions started

VARIABLES
    \* ---- gadget/proto.py, threads calling on one Protocol instance
    tpc,           \* per thread, where its call is: "idle", "recvlen",
                   \*   "recvbody", "done"
    treq,          \* per thread, the request of its call (0: none yet)
    tprefix,       \* per thread, the bytes its socket.recv(4) returned
    tlength,       \* per thread, local length once unpacked (-1 before)
    tresult,       \* per thread, local result, the bytes read so far
    toutcome,      \* per thread, how its call ended
    sockOut,       \* requests written to self._socket, not yet answered
    sockIn,        \* bytes the remote side wrote, not yet read
    tcalls,        \* calls started on the instance
    raced          \* a call was started while another one was in progress

regVars == <<mappings, loaded, regLog, resolveArg, resolveOut>>

thrVars == <<tpc, treq, tprefix, tlength, tresult, toutcome, sockOut, sockIn,
             tcalls, raced>>

bootVars == <<appPc, app, apps, sock, psock, wire, nboots>>

objVars == <<objs, lastOp, nops, entry_points>>

callVars == <<pc, request, length, result, response, outcome, outbound,
              inbound, eof, desync, reply, zeroRead, nsend, nrecvlen, ncalls,
              broken>>

vars == <<regVars, callVars, objVars, bootVars, thrVars>>

\* ------------------------------------------------------------------------
\* Bounds of the model
\* ------------------------------------------------------------------------
MaxRegs == 2       \* register calls made after the import of gadget.mapping
MaxNames == 3      \* longest classnames list handed to Registry.resolve
MaxCalls == 2      \* calls issued on one Protocol instance
MaxObjs == 3       \* proxy objects constructed
MaxOps == 3        \* operations made on the proxy objects
MaxArgs == 2       \* arguments handed to a method or a constructor
MaxBoots == 2      \* Application objects constructed one after the other
MaxThreadCalls == 3 \* calls the threads start on the one Protocol instance

\* ------------------------------------------------------------------------
\* Values
\* ------------------------------------------------------------------------
None == "None"

RootType == "java.lang.Object"

\* Java class names used in register / resolve calls
RegNames == {RootType, "A", "B"}

\* Python classes that get registered
RegClasses == {"Object", "X"}

\* ValueError("No available mapping"), mapping.py line 92
NoMapping == "ValueError: No available mapping"

SeqsUpTo(S, n) == UNION {[1..k -> S] : k \in 0..n}

\* dict assignment d[k] = v
DictPut(d, k, v) == [x \in (DOMAIN d) \cup {k} |-> IF x = k THEN v ELSE d[x]]

EmptyDict == [x \in {} |-> None]

\* ------------------------------------------------------------------------
\* gadget/mapping.py: Registry
\* ------------------------------------------------------------------------

\* a register that keeps an existing binding (first registration wins)
RegisterKeepFirst(clazz, classname) ==
    mappings' = IF classname \in DOMAIN mappings
                THEN mappings
                ELSE DictPut(mappings, classname, clazz)

\* a register that rebuilds the table around the new binding
RegisterReplaceTable(clazz, classname) ==
    mappings' = DictPut(EmptyDict, classname, clazz)

\* Registry.register(clazz, classname): cls.mappings[classname] = clazz
Register(clazz, classname) ==
    mappings' = DictPut(mappings, classname, clazz)

\* a resolve that keeps scanning and returns the last candidate found
RECURSIVE ResolveLastHit(_, _)
ResolveLastHit(table, classnames) ==
    IF classnames = << >> THEN NoMapping
    ELSE LET rest == ResolveLastHit(table, Tail(classnames))
         IN  IF rest # NoMapping THEN rest
             ELSE IF Head(classnames) \in DOMAIN table
                  THEN table[Head(classnames)]
                  ELSE NoMapping

\* Registry.resolve(classnames): the for loop of lines 88-90, then the raise
RECURSIVE Resolve(_, _)
Resolve(table, classnames) ==
    IF classnames = << >> THEN NoMapping
    ELSE IF Head(classnames) \in DOMAIN table
         THEN table[Head(classnames)]
         ELSE Resolve(table, Tail(classnames))

\* import gadget.mapping: the module body defines Registry with an empty
\* table and then runs @maptype('java.lang.Object') on class Object
ImportMapping ==
    /\ ~loaded
    /\ Register("Object", RootType)
    /\ loaded' = TRUE
    /\ regLog' = Append(regLog, <<"Object", RootType>>)
    /\ UNCHANGED <<resolveArg, resolveOut>>
    /\ UNCHANGED <<callVars, objVars, bootVars, thrVars>>

\* maptype(*classnames)(clazz), or a direct Registry.register call; one
\* register call per step (the decorator's loop is a sequence of them)
RegisterCall ==
    /\ loaded
    /\ Len(regLog) < MaxRegs + 1
    /\ \E clazz \in RegClasses, classname \in RegNames :
          /\ Register(clazz, classname)
          /\ regLog' = Append(regLog, <<clazz, classname>>)
    /\ UNCHANGED <<loaded, resolveArg, resolveOut>>
    /\ UNCHANGED <<callVars, objVars, bootVars, thrVars>>

ResolveCall ==
    /\ loaded
    /\ \E classnames \in SeqsUpTo(RegNames, MaxNames) :
          /\ resolveArg' = classnames
          /\ resolveOut' = Resolve(mappings, classnames)
    /\ UNCHANGED <<mappings, loaded, regLog>>
    /\ UNCHANGED <<callVars, objVars, bootVars, thrVars>>

\* ------------------------------------------------------------------------
\* gadget/proto.py: the wire format and Protocol._call
\* ------------------------------------------------------------------------

\* struct.pack('>I', n): 4 bytes, big-endian, unsigned 32 bit
Pack(n) ==
    << (n \div 16777216) % 256, (n \div 65536) % 256, (n \div 256) % 256, n % 256 >>

\* struct.unpack('>I', b)[0]
Unpack(b) == b[1] * 16777216 + b[2] * 65536 + b[3] * 256 + b[4]

\* The calls issued in the model: (name, arguments) of Protocol.__getattr__'s
\* proxy; the application of the Protocol instance is self._app.
Requests == { [name |-> "getEntryPoints", arguments |-> << >>],
              [name |-> "pushInt", arguments |-> <<1>>] }

\* json.dumps([app, name] + list(arguments)).  JSON text is modelled with one
\* byte per token: '[' 91, the application name 97, the method name 103 or
\* 112, one byte 48+i per integer argument i, ']' 93.
JsonDumpsRequest(name, arguments) ==
    <<91, 97>> \o << IF name = "pushInt" THEN 112 ELSE 103 >>
        \o [i \in 1..Len(arguments) |-> 48 + arguments[i]] \o <<93>>

\* message = struct.pack('>I', len(request)) + request   (line 70)
Message(req) == Pack(Len(req)) \o req

\* The Response objects the remote side answers with: a dict with "success"
\* and an optional "response" (the value, or the error description).
Docs == { [success |-> TRUE, response |-> "value"],
          [success |-> TRUE],
          [success |-> FALSE, response |-> "boom"],
          [success |-> FALSE] }

\* The remote side's JSON text of a Response, one byte per token: '{' 123,
\* "success":true 116, "success":false 102, "response": 114 followed by the
\* value (118 for "value", 98 for "boom"), '}' 125.
JsonDumps(doc) ==
    <<123>> \o << IF doc.success THEN 116 ELSE 102 >>
        \o (IF "response" \in DOMAIN doc
            THEN <<114, IF doc.response = "value" THEN 118 ELSE 98>>
            ELSE << >>)
        \o <<125>>

\* json.loads(text) succeeds
IsJson(text) == \E doc \in Docs : JsonDumps(doc) = text

\* json.loads(text), when it succeeds
JsonLoads(text) == CHOOSE doc \in Docs : JsonDumps(doc) = text

Outcome(kind, value) == [kind |-> kind, value |-> value]

NoOutcome == Outcome("none", None)

\* assert len(length) == 4, IOError("Connection error while receiving")
ConnectionLost == Outcome("AssertionError", "IOError: Connection error while receiving")

\* assert len(result) == length, IOError("Wrong message length")
WrongLength == Outcome("AssertionError", "IOError: Wrong message length")

\* the condition of the assert of line 84, with the assert left out
LengthNotChecked(res, len) == TRUE

\* the condition of the assert of line 84
LengthChecked(res, len) == Len(res) = len

\* Lines 84-89 on a decoded dict: the RuntimeError carries
\* "Remote error, %s" % response['response'], which is a KeyError when the
\* key is absent.
Answer(doc) ==
    IF ~doc.success
    THEN IF "response" \in DOMAIN doc
         THEN Outcome("RuntimeError", doc.response)
         ELSE Outcome("KeyError", "response")
    ELSE IF "response" \notin DOMAIN doc
         THEN Outcome("return", None)
         ELSE Outcome("return", doc.response)

\* Lines 83-89: what the call does with the bytes accumulated once the
\* receive loop is over.
Decode(res, len) ==
    IF ~LengthChecked(res, len) THEN WrongLength
    ELSE IF ~IsJson(res) THEN Outcome("ValueError", "No JSON object could be decoded")
    ELSE Answer(JsonLoads(res))

\* the dict bound to response by line 86, if that line is reached and succeeds
Decoded(res, len) ==
    IF LengthChecked(res, len) /\ IsJson(res) THEN JsonLoads(res) ELSE EmptyDict

\* the errors of the asserts of lines 74 and 84: the stream ended or fell
\* out of step
FramingError(out) == out \in {ConnectionLost, WrongLength}

\* a call that sends its request again when it failed
LeaveOrRetry(out) ==
    /\ IF out.kind \in {"return", "none"}
       THEN pc' = "done" /\ outcome' = out
       ELSE pc' = "send" /\ outcome' = NoOutcome
    /\ broken' = (broken \/ FramingError(out))

\* the call returns or raises: control leaves _call
Leave(out) ==
    /\ pc' = "done"
    /\ outcome' = out
    /\ broken' = (broken \/ FramingError(out))

\* socket.recv(n): the chunks the socket may hand over.  A read returns at
\* least one and at most n of the queued bytes; it returns no byte when the
\* peer has closed the stream, and the peer may close it at any time, giving
\* up whatever it had queued.
Chunks(n) ==
    {SubSeq(inbound, 1, k) : k \in 1..(IF Len(inbound) < n THEN Len(inbound) ELSE n)}
        \cup {<< >>}

AfterRecv(chunk) ==
    /\ inbound' = (IF chunk = << >> THEN << >>
                   ELSE SubSeq(inbound, Len(chunk) + 1, Len(inbound)))
    /\ eof' = (eof \/ chunk = << >>)
    /\ zeroRead' = (chunk = << >>)

\* proxy(*arguments) of Protocol.__getattr__ enters _call: lines 69-70
CallBegin ==
    /\ pc \in {"idle", "done"}
    /\ ncalls < MaxCalls
    /\ \E req \in Requests :
          request' = JsonDumpsRequest(req.name, req.arguments)
    /\ pc' = "send"
    /\ ncalls' = ncalls + 1
    /\ length' = -1
    /\ result' = << >>
    /\ response' = EmptyDict
    /\ outcome' = NoOutcome
    /\ outbound' = << >>
    /\ reply' = << >>
    /\ zeroRead' = FALSE
    /\ nsend' = 0
    /\ nrecvlen' = 0
    /\ UNCHANGED <<inbound, eof, desync, broken>>
    /\ UNCHANGED <<regVars, objVars, bootVars, thrVars>>

\* socket.send(message), line 71: the transport accepts the first k bytes
\* and returns k, which the call does not look at.  The peer answers a
\* request that reached it whole, on a stream that is still in step.
SocketSend ==
    /\ pc = "send"
    /\ \E k \in 1..Len(Message(request)) :
          /\ outbound' = SubSeq(Message(request), 1, k)
          /\ desync' = (desync \/ k < Len(Message(request)))
          /\ IF k = Len(Message(request)) /\ ~desync /\ ~eof
             THEN \E doc \in Docs :
                     /\ reply' = (IF inbound = << >> THEN JsonDumps(doc) ELSE << >>)
                     /\ inbound' = inbound \o Message(JsonDumps(doc))
             ELSE UNCHANGED <<reply, inbound>>
    /\ nsend' = nsend + 1
    /\ pc' = "recvlen"
    /\ UNCHANGED <<request, length, result, response, outcome, eof,
                   zeroRead, nrecvlen, ncalls, broken>>
    /\ UNCHANGED <<regVars, objVars, bootVars, thrVars>>

\* socket.send raises socket.error (the connection is gone)
SocketSendFails ==
    /\ pc = "send"
    /\ nsend' = nsend + 1
    /\ eof' = TRUE
    /\ inbound' = << >>
    /\ Leave(Outcome("socket.error", "send"))
    /\ UNCHANGED <<request, length, result, response, outbound, desync,
                   reply, zeroRead, nrecvlen, ncalls>>
    /\ UNCHANGED <<regVars, objVars, bootVars, thrVars>>

\* length = socket.recv(4), the assert of line 74 and the unpack of line 75;
\* then line 77 and the first test of the while of line 78
RecvLength ==
    /\ pc = "recvlen"
    /\ \E chunk \in Chunks(4) :
          /\ AfterRecv(chunk)
          /\ nrecvlen' = nrecvlen + 1
          /\ result' = << >>
          /\ IF Len(chunk) # 4
             THEN /\ Leave(ConnectionLost)
                  /\ UNCHANGED <<length, response>>
             ELSE /\ length' = Unpack(chunk)
                  /\ IF Unpack(chunk) > 0
                     THEN /\ pc' = "recvbody"
                          /\ UNCHANGED <<outcome, response, broken>>
                     ELSE /\ Leave(Decode(<< >>, 0))
                          /\ response' = Decoded(<< >>, 0)
    /\ UNCHANGED <<request, outbound, desync, reply, nsend, ncalls>>
    /\ UNCHANGED <<regVars, objVars, bootVars, thrVars>>

\* one turn of the while loop of lines 78-82, and lines 83-89 when it ends
RecvBody ==
    /\ pc = "recvbody"
    /\ \E chunk \in Chunks(length - Len(result)) :
          /\ AfterRecv(chunk)
          /\ result' = result \o chunk
          /\ IF chunk # << >> /\ Len(result \o chunk) < length
             THEN UNCHANGED <<pc, outcome, response, broken>>
             ELSE /\ Leave(Decode(result \o chunk, length))
                  /\ response' = Decoded(result \o chunk, length)
    /\ UNCHANGED <<request, length, outbound, desync, reply, nsend,
                   nrecvlen, ncalls>>
    /\ UNCHANGED <<regVars, objVars, bootVars, thrVars>>

\* socket.recv raises socket.error (connection reset)
SocketRecvFails ==
    /\ pc \in {"recvlen", "recvbody"}
    /\ ~eof
    /\ eof' = TRUE
    /\ inbound' = << >>
    /\ nrecvlen' = (IF pc = "recvlen" THEN nrecvlen + 1 ELSE nrecvlen)
    /\ Leave(Outcome("socket.error", "recv"))
    /\ UNCHANGED <<request, length, result, response, outbound, desync,
                   reply, zeroRead, nsend, ncalls>>
    /\ UNCHANGED <<regVars, objVars, bootVars, thrVars>>

\* a connected Protocol instance with no call made yet
InitCallVars ==
    /\ pc = "idle"
    /\ request = << >>
    /\ length = -1
    /\ result = << >>
    /\ response = EmptyDict
    /\ outcome = NoOutcome
    /\ outbound = << >>
    /\ inbound = << >>
    /\ eof = FALSE
    /\ desync = FALSE
    /\ reply = << >>
    /\ zeroRead = FALSE
    /\ nsend = 0
    /\ nrecvlen = 0
    /\ ncalls = 0
    /\ broken = FALSE

\* the registry once gadget.mapping is imported
InitLoadedRegistry ==
    /\ mappings = DictPut(EmptyDict, RootType, "Object")
    /\ loaded = TRUE
    /\ regLog = << <<"Object", RootType>> >>
    /\ resolveArg = << >>
    /\ resolveOut = None

\* ------------------------------------------------------------------------
\* gadget/mapping.py, gadget/types.py, gadget/proto.py: the remote objects
\* ------------------------------------------------------------------------

\* Registry.mappings once gadget.mapping and gadget.types are imported: the
\* @maptype decorators of mapping.py:124 and types.py:13-191
LibraryMappings ==
    [t \in {"java.lang.Object", "java.lang.Class", "null", "java.lang.Integer",
            "java.lang.Boolean", "java.lang.String", "java.util.AbstractMap",
            "java.util.Collection", "android.app.Activity"} |->
        CASE t = "java.lang.Object" -> "Object"
          [] t = "java.lang.Class" -> "Class"
          [] t = "null" -> "Null"
          [] t = "java.lang.Integer" -> "Integer"
          [] t = "java.lang.Boolean" -> "Boolean"
          [] t = "java.lang.String" -> "String"
          [] t = "java.util.AbstractMap" -> "Map"
          [] t = "java.util.Collection" -> "Collection"
          [] OTHER -> "Activity"]

\* the classes whose _refresh fetches the remote value (types.py:76-121)
ValueClasses == {"Integer", "Boolean", "String"}

\* entry points the remote side issues: the one the objects are first
\* reached at, and those a push answers with
RootEntryPoints == {0}

PushedEntryPoints == {1, 2}

\* what the remote side answers to getTypes: type names, most specific first
TypeLists == { << >>,
               <<"java.lang.Integer", "java.lang.Number", "java.lang.Object">>,
               <<"com.example.Thing", "java.lang.Object">> }

\* what the remote side answers to getFields and getMethods: one string
\* "name:modifier* type" per member, here already cut at ':' and at ' '
FieldLists == { << >>,
                << <<"f", "public", "int">>,
                   <<"g", "private", "final", "com.example.Thing">> >> }

MethodLists == { << >>,
                 << <<"g", "public", "void">>,
                    <<"m", "public", "int">>,
                    <<"m", "public", "static", "int">> >> }

\* what the remote side answers to getValue
Values == {"7"}

\* attribute names looked up
Names == {"f", "g", "m"}

\* The outcome of an operation: the heap it leaves, the remote calls it
\* issued in order, what it returned (kind, val) or raised (kind), and the
\* method invocations it sent (method, arguments) in order.
ResSent(h, rpcs, kind, val, sent) ==
    [h |-> h, rpcs |-> rpcs, kind |-> kind, val |-> val, sent |-> sent]

Res(h, rpcs, kind, val) == ResSent(h, rpcs, kind, val, << >>)

\* The exceptions an operation ends with:
\*   RuntimeError           a remote call failed (proto.py:88, or the socket)
\*   ValueError             Registry.resolve found no mapping (mapping.py:92)
\*   AttributeError         unknown attribute (mapping.py:245)
\*   NoneAttributeError     AttributeError of an attribute looked up on None
\*   ServiceAttributeError  AttributeError of a method class Service lacks
\*   TypeError              "name in None": argument of type 'NoneType' is
\*                          not iterable
Errors == {"RuntimeError", "ValueError", "AttributeError",
           "NoneAttributeError", "ServiceAttributeError", "TypeError"}

Raised(r) == r.kind \in Errors

\* sequencing: the statements F after the statements that gave rs; an
\* exception ends the operation
Then(rs, F(_)) ==
    UNION { IF Raised(r) THEN {r}
            ELSE {ResSent(q.h, r.rpcs \o q.rpcs, q.kind, q.val, r.sent \o q.sent)
                     : q \in F(r)} : r \in rs }

\* a remote call through the Protocol: it raises, or returns an answer
Rpc(h, name, Answers, F(_)) ==
    {Res(h, <<name>>, "RuntimeError", 0)}
        \cup UNION { {ResSent(q.h, <<name>> \o q.rpcs, q.kind, q.val, q.sent)
                         : q \in F(a)}
                     : a \in Answers }

\* a cache attribute is None / is a dict
NoCache == << >>

\* a test that finds the cache missing whatever it holds
CacheAlwaysMissing(cache) == TRUE

\* self._field_cache is None, self._method_cache is None
CacheMissing(cache) == cache = NoCache

Last(seq) == seq[Len(seq)]

\* Service.get_fields, lines 175-183: the dict built from the answer; a
\* later member of the same name replaces an earlier one
RECURSIVE FieldDict(_, _)
FieldDict(fields, n) ==
    IF n = 0 THEN EmptyDict
    ELSE DictPut(FieldDict(fields, n - 1), Head(fields[n]),
                 [modifiers |-> SubSeq(fields[n], 2, Len(fields[n]) - 1),
                  type_ |-> Last(fields[n]),
                  tag |-> "int",
                  val |-> n - 1])

\* Service.get_methods, lines 244-256: name -> the indexes of the methods of
\* that name, each a concrete Method(self, entry_point, path, index, signature)
MethodDict(methods, entry_point, path) ==
    [name \in {Head(methods[i]) : i \in 1..Len(methods)} |->
        [indexes |-> {i - 1 : i \in {j \in 1..Len(methods) : Head(methods[j]) = name}},
         entry_point |-> entry_point,
         path |-> path]]

\* Object.__init__, lines 158-163
NewObject(cls, types, entry_point, path) ==
    [cls |-> cls, types |-> types, entry_point |-> entry_point, path |-> path,
     field_cache |-> NoCache, method_cache |-> NoCache, value |-> "unset"]

\* a _refresh that no class overrides: it never fetches the value
RefreshNothing(h, id) == {Res(h, << >>, "obj", id)}

\* obj._refresh(): Object (mapping.py:247) does nothing; Integer, Boolean and
\* String (types.py:76, 95, 117) fetch the value
Refresh(h, id) ==
    IF h[id].cls \in ValueClasses
    THEN Rpc(h, "getValue", Values,
             LAMBDA v : {Res([h EXCEPT ![id].value = v], << >>, "obj", id)})
    ELSE {Res(h, << >>, "obj", id)}

\* cls.__init__(self, service, types, entry_point, path): Null (types.py:42-43)
\* hands -1 and [] to Object.__init__ whatever it is given; the other classes
\* inherit Object.__init__
ClassInit(cls, types, entry_point, path) ==
    IF cls = "Null"
    THEN NewObject(cls, types, -1, << >>)
    ELSE NewObject(cls, types, entry_point, path)

\* cls(service, types, entry_point, path): __init__ ends with self._refresh();
\* when that raises, no reference to the new object is left
Construct(h, cls, types, entry_point, path) ==
    { IF Raised(r) THEN Res(h, r.rpcs, r.kind, r.val) ELSE r :
        r \in Refresh(Append(h, ClassInit(cls, types, entry_point, path)),
                      Len(h) + 1) }

\* Service.get_field(entry_point, path), proto.py:196-201
ServiceGetField(h, entry_point, path) ==
    IF entry_point < 0 THEN {Res(h, << >>, "None", 0)}
    ELSE Rpc(h, "getTypes", TypeLists,
             LAMBDA types :
                IF Len(types) = 0 THEN {Res(h, << >>, "None", 0)}
                ELSE IF Resolve(mappings, types) = NoMapping
                THEN {Res(h, << >>, "ValueError", 0)}
                ELSE Construct(h, Resolve(mappings, types), types,
                               entry_point, path))

\* Object._getfields, mapping.py:261-264; Null._getfields, types.py:51-52
GetFields(h, id) ==
    IF h[id].cls = "Null" THEN {Res(h, << >>, "None", 0)}
    ELSE IF CacheMissing(h[id].field_cache)
    THEN Rpc(h, "getFields", FieldLists,
             LAMBDA fields :
                {Res([h EXCEPT ![id].field_cache = <<FieldDict(fields, Len(fields))>>],
                     << >>, "names", Len(fields))})
    ELSE {Res(h, << >>, "names", 0)}

\* Object._getmethods, mapping.py:294-297; Null._getmethods, types.py:54-55
GetMethods(h, id) ==
    IF h[id].cls = "Null" THEN {Res(h, << >>, "None", 0)}
    ELSE IF CacheMissing(h[id].method_cache)
    THEN Rpc(h, "getMethods", MethodLists,
             LAMBDA methods :
                {Res([h EXCEPT ![id].method_cache =
                          <<MethodDict(methods, h[id].entry_point, h[id].path)>>],
                     << >>, "names", Len(methods))})
    ELSE {Res(h, << >>, "names", 0)}

\* a _getfield that does not store the field it materialized (line 284 left out)
FieldOfNotStored(h, id, name) ==
    LET entry == h[id].field_cache[1][name]
        field == IF entry.tag = "int"
                 THEN ServiceGetField(h, h[id].entry_point,
                                      h[id].path \o <<entry.val>>)
                 ELSE {Res(h, << >>, entry.tag, entry.val)}
    IN  Then(field,
             LAMBDA r : IF r.kind = "None"
                        THEN {Res(r.h, << >>, "NoneAttributeError", 0)}
                        ELSE Refresh(r.h, r.val))

\* Object._getfield(name), lines 278-287 once the field list is there
FieldOf(h, id, name) ==
    LET entry == h[id].field_cache[1][name]
        field == IF entry.tag = "int"
                 THEN Then(ServiceGetField(h, h[id].entry_point,
                                           h[id].path \o <<entry.val>>),
                           LAMBDA r :
                              {Res([r.h EXCEPT ![id].field_cache[1][name] =
                                        [entry EXCEPT !.tag = r.kind, !.val = r.val]],
                                   << >>, r.kind, r.val)})
                 ELSE {Res(h, << >>, entry.tag, entry.val)}
    IN  Then(field,
             LAMBDA r : IF r.kind = "None"
                        THEN {Res(r.h, << >>, "NoneAttributeError", 0)}
                        ELSE Refresh(r.h, r.val))

\* Object._getfield(name), mapping.py:278-287; "name in None" is a TypeError
GetField(h, id, name) ==
    Then(GetFields(h, id),
         LAMBDA r : IF r.kind = "None"
                    THEN {Res(r.h, << >>, "TypeError", 0)}
                    ELSE IF name \in DOMAIN r.h[id].field_cache[1]
                    THEN FieldOf(r.h, id, name)
                    ELSE {Res(r.h, << >>, "None", 0)})

\* Object._getmethod(name), mapping.py:308-311: a new virtual Method each time
GetMethod(h, id, name) ==
    Then(GetMethods(h, id),
         LAMBDA r : IF r.kind = "None"
                    THEN {Res(r.h, << >>, "TypeError", 0)}
                    ELSE IF name \in DOMAIN r.h[id].method_cache[1]
                    THEN {Res(r.h, << >>, "method", id)}
                    ELSE {Res(r.h, << >>, "None", 0)})

\* a __getattr__ that fetches the method list before it looks among the
\* fields
GetAttrEager(h, id, name) ==
    Then(GetMethods(h, id),
         LAMBDA m :
            Then(GetField(m.h, id, name),
                 LAMBDA r : IF r.kind # "None" THEN {Res(r.h, << >>, r.kind, r.val)}
                            ELSE Then(GetMethod(r.h, id, name),
                                      LAMBDA q : IF q.kind # "None"
                                                 THEN {Res(q.h, << >>, q.kind, q.val)}
                                                 ELSE {Res(q.h, << >>, "AttributeError", 0)})))

\* a __getattr__ that looks among the methods first
GetAttrMethodsFirst(h, id, name) ==
    Then(GetMethod(h, id, name),
         LAMBDA r : IF r.kind # "None" THEN {Res(r.h, << >>, r.kind, r.val)}
                    ELSE Then(GetField(r.h, id, name),
                              LAMBDA q : IF q.kind # "None"
                                         THEN {Res(q.h, << >>, q.kind, q.val)}
                                         ELSE {Res(q.h, << >>, "AttributeError", 0)}))

\* Object.__getattr__(name), mapping.py:239-245
GetAttr(h, id, name) ==
    Then(GetField(h, id, name),
         LAMBDA r : IF r.kind # "None" THEN {Res(r.h, << >>, r.kind, r.val)}
                    ELSE Then(GetMethod(r.h, id, name),
                              LAMBDA q : IF q.kind # "None"
                                         THEN {Res(q.h, << >>, q.kind, q.val)}
                                         ELSE {Res(q.h, << >>, "AttributeError", 0)}))

\* Object.__dir__, mapping.py:190: the left operand's .keys() is called
\* before the right operand is evaluated; None has no attribute keys
Dir(h, id) ==
    Then(GetFields(h, id),
         LAMBDA r :
            IF r.kind = "None" THEN {Res(r.h, << >>, "NoneAttributeError", 0)}
            ELSE Then(GetMethods(r.h, id),
                      LAMBDA q :
                         IF q.kind = "None"
                         THEN {Res(q.h, << >>, "NoneAttributeError", 0)}
                         ELSE {Res(q.h, << >>, "names",
                                   Cardinality(DOMAIN q.h[id].field_cache[1])
                                     + Cardinality(DOMAIN q.h[id].method_cache[1]))}))

\* a _getentrypoint that pushes but keeps the path
GetEntryPointKeepsPath(h, id) ==
    IF Len(h[id].path) > 0
    THEN Rpc(h, "pushObject", PushedEntryPoints,
             LAMBDA ep : {Res([h EXCEPT ![id].entry_point = ep], << >>, "ep", ep)})
    ELSE {Res(h, << >>, "ep", h[id].entry_point)}

\* a _getentrypoint that clears the path before it pushes
GetEntryPointClearsFirst(h, id) ==
    IF Len(h[id].path) > 0
    THEN Rpc([h EXCEPT ![id].path = << >>], "pushObject", PushedEntryPoints,
             LAMBDA ep : {Res([h EXCEPT ![id].entry_point = ep, ![id].path = << >>],
                              << >>, "ep", ep)})
    ELSE {Res(h, << >>, "ep", h[id].entry_point)}

\* Object._getentrypoint, mapping.py:320-324
GetEntryPoint(h, id) ==
    IF Len(h[id].path) > 0
    THEN Rpc(h, "pushObject", PushedEntryPoints,
             LAMBDA ep : {Res([h EXCEPT ![id].entry_point = ep, ![id].path = << >>],
                              << >>, "ep", ep)})
    ELSE {Res(h, << >>, "ep", h[id].entry_point)}

\* a Python value handed to an operation: an Object instance ("obj", val:
\* which one), an int, a str, a bool, or None
Value(tag, val) == [tag |-> tag, val |-> val]

\* a remote call that carries a method invocation: the invocation is noted
\* whether the call answers or raises
RpcSent(h, name, invocation, Answers, F(_)) ==
    {ResSent(h, <<name>>, "RuntimeError", 0, <<invocation>>)}
        \cup UNION { {ResSent(q.h, <<name>> \o q.rpcs, q.kind, q.val,
                              <<invocation>> \o q.sent) : q \in F(a)}
                     : a \in Answers }

\* what the remote side answers to an invocation: the entry point of the
\* result, -1 when there is none
InvokeAnswers == PushedEntryPoints \cup {-1}

\* Service.to_object(var), proto.py:313-318: a str, an int or a bool is
\* pushed and wrapped; for anything else the function ends without a return
ToObject(h, var) ==
    IF var.tag \in {"str", "int", "bool"}
    THEN Rpc(h, CASE var.tag = "str" -> "pushString"
                  [] var.tag = "int" -> "pushInt"
                  [] OTHER -> "pushBool",
             PushedEntryPoints,
             LAMBDA ep : ServiceGetField(h, ep, << >>))
    ELSE {Res(h, << >>, "None", 0)}

\* Method(service, entry_point, path, method, signature), mapping.py:370-374:
\* method is a name (tag "name") or an index (tag "index")
Method(entry_point, path, tag, name, index) ==
    [entry_point |-> entry_point, path |-> path, tag |-> tag, name |-> name,
     index |-> index]

\* the callable of a Class object (types.py:19): it holds the address of the
\* class
Constructor(entry_point, path) == Method(entry_point, path, "new", "", 0)

\* the invocation a remote call carries: what is invoked and the list of
\* arguments, each <<entry point>> or << >> for a None (JSON null)
Invocation(rpc, m, arguments) ==
    [rpc |-> rpc, entry_point |-> m.entry_point, path |-> m.path,
     tag |-> m.tag, name |-> m.name, index |-> m.index, arguments |-> arguments]

\* "self._method is str" (mapping.py:389): the identity of the name or index
\* with the class str, which neither is
MethodIsStr(m) == FALSE

\* the truth value of type(b) for a bool b: type(b) is the class bool, and a
\* class is true
TypeIsTrue(b) == TRUE

\* self._service.invoke (mapping.py:393): class Service (proto.py:121-318)
\* defines no invoke, the attribute lookup raises AttributeError
ServiceInvoke(h, m, arguments) == {Res(h, << >>, "ServiceAttributeError", 0)}

\* Service.virtual (proto.py:285-288), Service.new_instance (proto.py:267-270)
ServiceCall(h, rpc, m, arguments) ==
    RpcSent(h, rpc, Invocation(rpc, m, arguments), InvokeAnswers,
            LAMBDA ep : ServiceGetField(h, ep, << >>))

\* Method.__call__, mapping.py:389-396; Class.__call__, types.py:31-34
Send(h, m, arguments) ==
    IF m.tag = "new" THEN ServiceCall(h, "newInstance", m, arguments)
    ELSE IF TypeIsTrue(MethodIsStr(m))
    THEN ServiceCall(h, "invokeMethodByName", m, arguments)
    ELSE ServiceInvoke(h, m, arguments)

\* a call that resolves its arguments one after the other: each argument is
\* promoted and gives its entry point before the next one is looked at
RECURSIVE CallArgumentWise(_, _, _, _, _)
CallArgumentWise(h, m, args, objects, arguments) ==
    IF Len(arguments) < Len(args)
    THEN LET arg == args[Len(arguments) + 1]
         IN  Then(IF arg.tag = "obj" THEN {Res(h, << >>, "obj", arg.val)}
                  ELSE ToObject(h, arg),
                  LAMBDA o :
                     IF o.kind = "None"
                     THEN IF m.tag = "new"
                          THEN {Res(o.h, << >>, "NoneAttributeError", 0)}
                          ELSE CallArgumentWise(o.h, m, args, objects,
                                                Append(arguments, << >>))
                     ELSE Then(GetEntryPoint(o.h, o.val),
                               LAMBDA r : CallArgumentWise(r.h, m, args, objects,
                                                           Append(arguments, <<r.val>>))))
    ELSE Send(h, m, arguments)

\* Method.__call__(*args), mapping.py:384-396, and Class.__call__(*args),
\* types.py:27-34: first every argument that is no Object goes through
\* to_object (objects: <<id>>, or << >> for None), then every object gives
\* its entry point (Class.__call__ does so for a None too, which has no
\* _getentrypoint), then the call is sent
RECURSIVE Call(_, _, _, _, _)
Call(h, m, args, objects, arguments) ==
    IF Len(objects) < Len(args)
    THEN LET arg == args[Len(objects) + 1]
         IN  IF arg.tag = "obj"
             THEN Call(h, m, args, Append(objects, <<arg.val>>), arguments)
             ELSE Then(ToObject(h, arg),
                       LAMBDA r : Call(r.h, m, args,
                                       Append(objects, IF r.kind = "None" THEN << >>
                                                       ELSE <<r.val>>),
                                       arguments))
    ELSE IF Len(arguments) < Len(args)
    THEN LET object == objects[Len(arguments) + 1]
         IN  IF object = << >>
             THEN IF m.tag = "new"
                  THEN {Res(h, << >>, "NoneAttributeError", 0)}
                  ELSE Call(h, m, args, objects, Append(arguments, << >>))
             ELSE Then(GetEntryPoint(h, object[1]),
                       LAMBDA r : Call(r.h, m, args, objects,
                                       Append(arguments, <<r.val>>)))
    ELSE Send(h, m, arguments)

\* self._service.set_value (mapping.py:206, 215): class Service
\* (proto.py:121-318) defines no set_value, the attribute lookup raises
\* AttributeError before any argument of the call is evaluated
ServiceSetValue(h, field, value) == {Res(h, << >>, "ServiceAttributeError", 0)}

\* Object.__setattr__(name, value) for a name that does not start with '_',
\* mapping.py:203-220
SetAttr(h, id, name, value) ==
    Then(GetField(h, id, name),
         LAMBDA f :
            IF f.kind = "None" THEN {Res(f.h, << >>, "return", 0)}
            ELSE IF value.tag = "obj"
            THEN Then(ServiceSetValue(f.h, f.val, value.val),
                      LAMBDA r : Then(Refresh(r.h, f.val),
                                      LAMBDA q : {Res(q.h, << >>, "return", 0)}))
            ELSE Then(ToObject(f.h, value),
                      LAMBDA o :
                         Then(IF o.kind = "None"
                              THEN Construct(o.h, Resolve(mappings, <<"null">>),
                                             << >>, -1, << >>)
                              ELSE {Res(o.h, << >>, o.kind, o.val)},
                              LAMBDA v :
                                 Then(ServiceSetValue(v.h, f.val, v.val),
                                      LAMBDA r :
                                         Then(Refresh(r.h, f.val),
                                              LAMBDA q : {Res(q.h, << >>, "return", 0)})))))

\* what the remote side answers to getTypes for the handle of a class
ClassTypeLists == { << >>, <<"java.lang.Class", "java.lang.Object">> }

\* Service.get_class(classname), proto.py:213-217
ServiceGetClass(h) ==
    Rpc(h, "getClass", PushedEntryPoints,
        LAMBDA clazz :
           Rpc(h, "getTypes", ClassTypeLists,
               LAMBDA types :
                  IF Len(types) = 0 THEN {Res(h, << >>, "None", 0)}
                  ELSE Construct(h, Resolve(mappings, types), types, clazz, << >>)))

\* the Method objects of a name that an object gives: the virtual one
\* _getmethod makes (mapping.py:311) and the concrete ones get_methods made
\* when the list was fetched (proto.py:255)
Methods(h, id, name) ==
    {Method(h[id].entry_point, h[id].path, "name", name, 0)}
        \cup {Method(h[id].method_cache[1][name].entry_point,
                     h[id].method_cache[1][name].path, "index", name, i)
                 : i \in h[id].method_cache[1][name].indexes}

\* the values handed as arguments or assigned: an int, None, or one of the
\* objects
ArgValues(h) ==
    {Value("int", 5), Value("None", 0)} \cup {Value("obj", id) : id \in DOMAIN h}

ArgLists(h) == SeqsUpTo(ArgValues(h), MaxArgs)

\* one operation: any of its outcomes that fits the bound on the heap
OperationOn(op, id, name, args, results) ==
    /\ nops < MaxOps
    /\ nops' = nops + 1
    /\ \E r \in results :
          /\ Len(r.h) <= MaxObjs
          /\ objs' = r.h
          /\ lastOp' = [op |-> op, obj |-> id, name |-> name, args |-> args,
                        rpcs |-> r.rpcs, kind |-> r.kind, val |-> r.val,
                        sent |-> r.sent]
    /\ UNCHANGED entry_points
    /\ UNCHANGED <<regVars, callVars, bootVars, thrVars>>

Operation(op, id, name, results) == OperationOn(op, id, name, << >>, results)

\* paths handed to Service.get_field by its callers
Paths == {<< >>, <<0>>}

\* entry points handed to Service.get_field by its callers: one the remote
\* side issued, or the -1 it answers for "no object"
GetFieldEntryPoints == RootEntryPoints \cup {-1}

\* service.get_field(entry_point, path)
ServiceGetFieldCall ==
    \E entry_point \in GetFieldEntryPoints, path \in Paths :
        OperationOn("get_field", 0, "",
                    <<Value("int", entry_point)>>
                        \o [i \in 1..Len(path) |-> Value("int", path[i])],
                    ServiceGetField(objs, entry_point, path))

\* Registry.resolve(['null'])(service, types, entry_point, path): a Null is
\* constructed (mapping.py:214 does it with no argument)
NullCall ==
    \E entry_point \in GetFieldEntryPoints \cup PushedEntryPoints, path \in Paths :
        OperationOn("Null", 0, "",
                    <<Value("int", entry_point)>>
                        \o [i \in 1..Len(path) |-> Value("int", path[i])],
                    Construct(objs, Resolve(mappings, <<"null">>), << >>,
                              entry_point, path))

\* service.get_class(classname)
GetClassCall ==
    Operation("get_class", 0, "", ServiceGetClass(objs))

\* method(*args) for a Method the object gave
MethodCall ==
    \E id \in DOMAIN objs :
        /\ objs[id].method_cache # NoCache
        /\ \E name \in DOMAIN objs[id].method_cache[1] :
              \E m \in Methods(objs, id, name), args \in ArgLists(objs) :
                 OperationOn("__call__", id, name, <<Value(m.tag, m.index)>> \o args,
                             Call(objs, m, args, << >>, << >>))

\* clazz(*args) for a Class object
NewCall ==
    \E id \in DOMAIN objs :
        /\ objs[id].cls = "Class"
        /\ \E args \in ArgLists(objs) :
              OperationOn("new", id, "", <<Value("new", 0)>> \o args,
                          Call(objs, Constructor(objs[id].entry_point, objs[id].path),
                               args, << >>, << >>))

\* obj.name = value
SetAttrCall ==
    \E id \in DOMAIN objs, name \in Names :
        \E value \in ArgValues(objs) :
           OperationOn("__setattr__", id, name, <<value>>,
                       SetAttr(objs, id, name, value))

GetAttrCall ==
    \E id \in DOMAIN objs, name \in Names :
        Operation("__getattr__", id, name, GetAttr(objs, id, name))

DirCall ==
    \E id \in DOMAIN objs :
        Operation("__dir__", id, "", Dir(objs, id))

GetEntryPointCall ==
    \E id \in DOMAIN objs :
        Operation("_getentrypoint", id, "", GetEntryPoint(objs, id))

\* what the remote side answers to getEntryPoints: the entry points of the
\* application
EntryPointLists == { << >>, <<0>>, <<0, 1>> }

\* the list comprehension of Service.refresh_entry_points, proto.py:158-160:
\* get_field(index, []) for every index of the list answered, the results
\* kept in a list (kind "list", val: the list); an exception of get_field
\* ends it
RECURSIVE EntryPointObjects(_, _, _)
EntryPointObjects(h, n, list) ==
    IF Len(list) < n
    THEN Then(ServiceGetField(h, Len(list), << >>),
              LAMBDA r : EntryPointObjects(r.h, n,
                            Append(list, IF r.kind = "None" THEN << >>
                                         ELSE <<r.val>>)))
    ELSE {Res(h, << >>, "list", list)}

\* Service.refresh_entry_points, proto.py:158-160, up to the assignment
RefreshEntryPoints(h) ==
    Rpc(h, "getEntryPoints", EntryPointLists,
        LAMBDA eps : EntryPointObjects(h, Len(eps), << >>))

\* the loop of Service.get_entry_points, proto.py:150-151, from entry i on:
\* _refresh is looked up on every entry, None has no such attribute
RECURSIVE RefreshEach(_, _, _)
RefreshEach(h, list, i) ==
    IF i > Len(list) THEN {Res(h, << >>, "return", 0)}
    ELSE IF list[i] = << >> THEN {Res(h, << >>, "NoneAttributeError", 0)}
    ELSE Then(Refresh(h, list[i][1]),
              LAMBDA r : RefreshEach(r.h, list, i + 1))

\* an operation of the Service on its list of entry points: the heap, the
\* remote calls, how it ended and the list it leaves
ServiceOperation(op, h, rpcs, kind, eps) ==
    /\ nops < MaxOps
    /\ nops' = nops + 1
    /\ Len(h) <= MaxObjs
    /\ objs' = h
    /\ lastOp' = [op |-> op, obj |-> 0, name |-> "", args |-> << >>,
                  rpcs |-> rpcs, kind |-> kind, val |-> 0, sent |-> << >>]
    /\ entry_points' = eps
    /\ UNCHANGED <<regVars, callVars, bootVars, thrVars>>

\* service.refresh_entry_points(): the attribute is assigned when the list
\* is complete
RefreshEntryPointsCall ==
    \E r \in RefreshEntryPoints(objs) :
        ServiceOperation("refresh_entry_points", r.h, r.rpcs,
                         IF r.kind = "list" THEN "return" ELSE r.kind,
                         IF r.kind = "list" THEN <<r.val>> ELSE entry_points)

\* service.get_entry_points(), proto.py:147-152: the list is made when the
\* attribute is None, then every entry is refreshed; the attribute keeps the
\* list when the loop raises
GetEntryPointsCall ==
    \E r \in (IF entry_points = NoCache THEN RefreshEntryPoints(objs)
              ELSE {Res(objs, << >>, "list", entry_points[1])}) :
        IF r.kind # "list"
        THEN ServiceOperation("get_entry_points", r.h, r.rpcs, r.kind, entry_points)
        ELSE \E q \in RefreshEach(r.h, r.val, 1) :
                ServiceOperation("get_entry_points", q.h, r.rpcs \o q.rpcs,
                                 q.kind, <<r.val>>)

\* Service.__init__: no object yet
InitObjVars ==
    /\ objs = << >>
    /\ lastOp = [op |-> "", obj |-> 0, name |-> "", args |-> << >>,
                 rpcs |-> << >>, kind |-> "None", val |-> 0, sent |-> << >>]
    /\ nops = 0
    /\ entry_points = NoCache

InitLibraryRegistry ==
    /\ mappings = LibraryMappings
    /\ loaded = TRUE
    /\ regLog = << >>
    /\ resolveArg = << >>
    /\ resolveOut = None

\* ------------------------------------------------------------------------
\* gadget/proto.py: Application.__init__, list_applications, Protocol.__init__
\* ------------------------------------------------------------------------

\* application identifiers handed to Application
AppIds == {"a", "b", "c"}

\* the lists of package names the remote side answers to listApps
AppLists == {<< >>, <<"a">>, <<"b">>, <<"b", "a">>}

\* the exceptions Protocol._call ends with (proto.py:71-88): socket.error of
\* send or recv, the AssertionError of lines 74 and 84, the ValueError of
\* json.loads, the KeyError and the RuntimeError of lines 87-88
CallErrors == {"socket.error", "AssertionError", "ValueError", "KeyError",
               "RuntimeError"}

\* what Protocol._call ends with when the answers come from Answers: it
\* returns one of them, or None when the response has no 'response' key, or
\* it raises
CallResults(Answers) ==
    {[kind |-> "return", value |-> <<a>>] : a \in Answers}
        \cup {[kind |-> "return", value |-> << >>]}
        \cup {[kind |-> e, value |-> << >>] : e \in CallErrors}

\* an entry of the history: a connection opened or closed, a request sent
Event(ev, conn, application, name) ==
    [ev |-> ev, conn |-> conn, app |-> application, name |-> name]

\* an assert that is not evaluated
ListedNotChecked(application, listed) == TRUE

\* "app in list_applications(remote)" for a list (proto.py:337)
Listed(application, listed) ==
    \E i \in 1..Len(listed) : listed[i] = application

\* Application(remote, app): __init__ is entered, list_applications is called
ApplicationBegin ==
    /\ appPc \in {"idle", "done", "failed"}
    /\ nboots < MaxBoots
    /\ nboots' = nboots + 1
    /\ \E a \in AppIds : app' = a
    /\ appPc' = "list_connect"
    /\ apps' = << >>
    /\ sock' = "none"
    /\ psock' = "none"
    /\ wire' = << >>
    /\ UNCHANGED <<regVars, callVars, objVars, thrVars>>

\* list_applications, lines 114-115: the socket is created and connected, or
\* connect raises socket.error
ListConnect ==
    /\ appPc = "list_connect"
    /\ \/ /\ sock' = "open"
          /\ wire' = Append(wire, Event("connect", "sock", "", ""))
          /\ appPc' = "list_call"
       \/ /\ sock' = "created"
          /\ appPc' = "failed"
          /\ UNCHANGED wire
    /\ UNCHANGED <<app, apps, psock, nboots>>
    /\ UNCHANGED <<regVars, callVars, objVars, thrVars>>

\* list_applications, lines 116-118: the call, and when it returns the close
\* and the return; when it raises the function is left at line 116.  A None
\* returned makes "app in None" of line 337 raise TypeError.
ListCall ==
    /\ appPc = "list_call"
    /\ \E r \in CallResults(AppLists) :
          IF r.kind = "return"
          THEN /\ wire' = wire \o <<Event("request", "sock", "", "listApps"),
                                    Event("close", "sock", "", "")>>
               /\ sock' = "closed"
               /\ apps' = r.value
               /\ appPc' = IF r.value = << >> THEN "failed" ELSE "assert"
          ELSE /\ wire' = Append(wire, Event("request", "sock", "", "listApps"))
               /\ appPc' = "failed"
               /\ UNCHANGED <<sock, apps>>
    /\ UNCHANGED <<app, psock, nboots>>
    /\ UNCHANGED <<regVars, callVars, objVars, thrVars>>

\* Application.__init__, lines 337-338: the assert on the list returned
AssertListed ==
    /\ appPc = "assert"
    /\ appPc' = IF Listed(app, apps[1]) THEN "connect" ELSE "failed"
    /\ UNCHANGED <<app, apps, sock, psock, wire, nboots>>
    /\ UNCHANGED <<regVars, callVars, objVars, thrVars>>

\* Protocol.__init__, lines 48-50: the socket is created and connected, or
\* connect raises socket.error
ProtocolConnect ==
    /\ appPc = "connect"
    /\ \/ /\ psock' = "open"
          /\ wire' = Append(wire, Event("connect", "psock", "", ""))
          /\ appPc' = "connectApp"
       \/ /\ psock' = "created"
          /\ appPc' = "failed"
          /\ UNCHANGED wire
    /\ UNCHANGED <<app, apps, sock, nboots>>
    /\ UNCHANGED <<regVars, callVars, objVars, thrVars>>

\* Protocol.__init__, line 51: self.connectApp() is a call of the proxy of
\* __getattr__ (lines 95-99) with the application of the instance; then
\* Service(self.protocol), line 340
ConnectApp ==
    /\ appPc = "connectApp"
    /\ wire' = Append(wire, Event("request", "psock", app, "connectApp"))
    /\ \E r \in CallResults({"ok"}) :
          appPc' = IF r.kind = "return" THEN "done" ELSE "failed"
    /\ UNCHANGED <<app, apps, sock, psock, nboots>>
    /\ UNCHANGED <<regVars, callVars, objVars, thrVars>>

\* the interpreter reclaims a socket no name refers to any longer: the local
\* sock of list_applications once the function was left by an exception and
\* the traceback is gone; the socket of a Protocol whose __init__ raised
\* (Protocol.__del__, line 57).  When this happens is up to the interpreter.
Reclaim ==
    /\ appPc = "failed"
    /\ \/ /\ sock \in {"created", "open"}
          /\ sock' = "closed"
          /\ wire' = IF sock = "open"
                     THEN Append(wire, Event("close", "sock", "", ""))
                     ELSE wire
          /\ UNCHANGED psock
       \/ /\ psock \in {"created", "open"}
          /\ psock' = "closed"
          /\ wire' = IF psock = "open"
                     THEN Append(wire, Event("close", "psock", "", ""))
                     ELSE wire
          /\ UNCHANGED sock
    /\ UNCHANGED <<appPc, app, apps, nboots>>
    /\ UNCHANGED <<regVars, callVars, objVars, thrVars>>

\* no Application constructed yet
InitBootVars ==
    /\ appPc = "idle"
    /\ app = ""
    /\ apps = << >>
    /\ sock = "none"
    /\ psock = "none"
    /\ wire = << >>
    /\ nboots = 0

\* ------------------------------------------------------------------------
\* gadget/proto.py: Protocol._call entered by several threads on one instance
\* ------------------------------------------------------------------------

\* the threads that hold the Protocol instance
Threads == {1, 2}

\* the size of struct.pack('>I', ...), what line 74 compares with
PrefixSize == 4

\* a size asked for the length prefix that is one byte short
PrefixReadShort == PrefixSize - 1

\* the size socket.recv is asked for the length prefix (proto.py:73)
PrefixRead == 4

\* the length of the document the remote side answers with
BodyLen == 2

\* a length that no number of bytes on the stream ever reaches
Huge == 99

\* the bytes the remote side writes to answer request r: the packed length,
\* then the document.  A byte is known by the answer it is part of and its
\* place in it.
Frame(r) == [k \in 1..(PrefixSize + BodyLen) |-> [owner |-> r, pos |-> k]]

\* the packed length of the answer to r, and its document
FramePrefix(r) == SubSeq(Frame(r), 1, PrefixSize)
FrameBody(r) == SubSeq(Frame(r), PrefixSize + 1, PrefixSize + BodyLen)

\* struct.unpack('>I', length)[0] (line 75): the length of the document when
\* the four bytes are the packed length of one answer; bytes out of documents
\* or out of two answers are some other number
UnpackBytes(bytes) ==
    IF \E r \in 1..MaxThreadCalls : bytes = FramePrefix(r)
    THEN {BodyLen}
    ELSE {0, BodyLen, Huge}

\* how a call of request r ends at lines 86-89 once result is complete: the
\* document of an answer decodes to the response to that answer's request;
\* other bytes make json.loads raise or decode to something else (value 0)
DecodeBytes(bytes) ==
    IF \E r \in 1..MaxThreadCalls : bytes = FrameBody(r)
    THEN {[kind |-> "return",
           value |-> CHOOSE r \in 1..MaxThreadCalls : bytes = FrameBody(r)]}
    ELSE {[kind |-> "ValueError", value |-> 0], [kind |-> "return", value |-> 0]}

\* what socket.recv(n) returns when bytes are there: the first n of them, or
\* all when there are fewer
Received(n) == SubSeq(sockIn, 1, IF n < Len(sockIn) THEN n ELSE Len(sockIn))

\* a thread calls a remote method through the proxy of __getattr__ (lines
\* 95-99): the request is built and sent (69-71)
ThreadCall(t) ==
    /\ tpc[t] \in {"idle", "done"}
    /\ tcalls < MaxThreadCalls
    /\ tcalls' = tcalls + 1
    /\ treq' = [treq EXCEPT ![t] = tcalls + 1]
    /\ tpc' = [tpc EXCEPT ![t] = "recvlen"]
    /\ tprefix' = [tprefix EXCEPT ![t] = << >>]
    /\ tlength' = [tlength EXCEPT ![t] = -1]
    /\ tresult' = [tresult EXCEPT ![t] = << >>]
    /\ toutcome' = [toutcome EXCEPT ![t] = [kind |-> "none", value |-> 0]]
    /\ sockOut' = Append(sockOut, tcalls + 1)
    /\ raced' = (raced \/ \E u \in Threads \ {t} :
                              tpc[u] \in {"recvlen", "recvbody"})
    /\ UNCHANGED sockIn
    /\ UNCHANGED <<regVars, callVars, objVars, bootVars>>

\* the remote side answers the oldest request it has not answered
RemoteAnswer ==
    /\ sockOut # << >>
    /\ sockIn' = sockIn \o Frame(Head(sockOut))
    /\ sockOut' = Tail(sockOut)
    /\ UNCHANGED <<tpc, treq, tprefix, tlength, tresult, toutcome, tcalls,
                   raced>>
    /\ UNCHANGED <<regVars, callVars, objVars, bootVars>>

\* lines 73-77 and, when the length is 0, 84-89: the prefix is read once,
\* checked and unpacked
ThreadRecvLength(t) ==
    /\ tpc[t] = "recvlen"
    /\ sockIn # << >>
    /\ LET bytes == Received(PrefixRead)
       IN  /\ sockIn' = SubSeq(sockIn, Len(bytes) + 1, Len(sockIn))
           /\ tprefix' = [tprefix EXCEPT ![t] = bytes]
           /\ IF Len(bytes) # PrefixSize
              THEN /\ tpc' = [tpc EXCEPT ![t] = "done"]
                   /\ toutcome' = [toutcome EXCEPT ![t] =
                          [kind |-> "AssertionError", value |-> 0]]
                   /\ UNCHANGED tlength
              ELSE \E n \in UnpackBytes(bytes) :
                      /\ tlength' = [tlength EXCEPT ![t] = n]
                      /\ IF n = 0
                         THEN /\ tpc' = [tpc EXCEPT ![t] = "done"]
                              /\ \E o \in DecodeBytes(<< >>) :
                                    toutcome' = [toutcome EXCEPT ![t] = o]
                         ELSE /\ tpc' = [tpc EXCEPT ![t] = "recvbody"]
                              /\ UNCHANGED toutcome
    /\ UNCHANGED <<treq, tresult, sockOut, tcalls, raced>>
    /\ UNCHANGED <<regVars, callVars, objVars, bootVars>>

\* one turn of the loop of lines 78-82 and, when it was the last, lines 84-89
ThreadRecvBody(t) ==
    /\ tpc[t] = "recvbody"
    /\ sockIn # << >>
    /\ LET recv == Received(tlength[t] - Len(tresult[t]))
           bytes == tresult[t] \o recv
       IN  /\ sockIn' = SubSeq(sockIn, Len(recv) + 1, Len(sockIn))
           /\ tresult' = [tresult EXCEPT ![t] = bytes]
           /\ IF Len(bytes) < tlength[t]
              THEN UNCHANGED <<tpc, toutcome>>
              ELSE /\ tpc' = [tpc EXCEPT ![t] = "done"]
                   /\ \E o \in DecodeBytes(bytes) :
                         toutcome' = [toutcome EXCEPT ![t] = o]
    /\ UNCHANGED <<treq, tprefix, tlength, sockOut, tcalls, raced>>
    /\ UNCHANGED <<regVars, callVars, objVars, bootVars>>

\* no thread has called yet
InitThrVars ==
    /\ tpc = [t \in Threads |-> "idle"]
    /\ treq = [t \in Threads |-> 0]
    /\ tprefix = [t \in Threads |-> << >>]
    /\ tlength = [t \in Threads |-> -1]
    /\ tresult = [t \in Threads |-> << >>]
    /\ toutcome = [t \in Threads |-> [kind |-> "none", value |-> 0]]
    /\ sockOut = << >>
    /\ sockIn = << >>
    /\ tcalls = 0
    /\ raced = FALSE

\* ------------------------------------------------------------------------
\* The specifications
\* ------------------------------------------------------------------------

\* the registry when gadget.mapping starts to load: Registry.mappings = dict()
InitRegistryVars ==
    /\ mappings = EmptyDict
    /\ loaded = FALSE
    /\ regLog = << >>
    /\ resolveArg = << >>
    /\ resolveOut = None

InitRegistry ==
    /\ InitBootVars
    /\ InitThrVars
    /\ InitRegistryVars
    /\ InitCallVars
    /\ InitObjVars

NextRegistry ==
    \/ ImportMapping
    \/ RegisterCall
    \/ ResolveCall

SpecRegistry == InitRegistry /\ [][NextRegistry]_vars

InitCall ==
    /\ InitBootVars
    /\ InitThrVars
    /\ InitLoadedRegistry
    /\ InitCallVars
    /\ InitObjVars

NextCall ==
    \/ CallBegin
    \/ SocketSend
    \/ SocketSendFails
    \/ RecvLength
    \/ RecvBody
    \/ SocketRecvFails

SpecCall == InitCall /\ [][NextCall]_vars

\* the construction of Application objects
NextBoot ==
    \/ ApplicationBegin
    \/ ListConnect
    \/ ListCall
    \/ AssertListed
    \/ ProtocolConnect
    \/ ConnectApp
    \/ Reclaim

SpecBoot == InitCall /\ [][NextBoot]_vars

\* two threads calling on one Protocol instance, and the remote side
NextThreads ==
    \/ \E t \in Threads : ThreadCall(t)
    \/ RemoteAnswer
    \/ \E t \in Threads : ThreadRecvLength(t)
    \/ \E t \in Threads : ThreadRecvBody(t)

SpecThreads == InitCall /\ [][NextThreads]_vars

InitObject ==
    /\ InitBootVars
    /\ InitThrVars
    /\ InitLibraryRegistry
    /\ InitCallVars
    /\ InitObjVars

NextObject ==
    \/ ServiceGetFieldCall
    \/ NullCall
    \/ GetAttrCall
    \/ DirCall
    \/ GetEntryPointCall

SpecObject == InitObject /\ [][NextObject]_vars

\* the objects, their methods and constructors invoked, their fields assigned
NextInvoke ==
    \/ ServiceGetFieldCall
    \/ GetClassCall
    \/ GetAttrCall
    \/ MethodCall
    \/ NewCall
    \/ SetAttrCall

SpecInvoke == InitObject /\ [][NextInvoke]_vars

\* the entry points listed and listed anew
NextEntryPoints ==
    \/ GetEntryPointsCall
    \/ RefreshEntryPointsCall

SpecEntryPoints == InitObject /\ [][NextEntryPoints]_vars

\* the heaps after service.get_field(0, [0]) returned an object, a read of its
\* attribute "f" returned the object of the field, and a read of its
\* attribute "m" returned a Method: two objects whose paths are not empty,
\* the first with its method list fetched
ArgsHeaps ==
    UNION { UNION { {r.h : r \in {x \in GetAttr(q.h, 1, "m") : x.kind = "method"}}
                    : q \in {x \in GetAttr(o.h, 1, "f") : x.kind = "obj"} }
            : o \in {x \in ServiceGetField(<< >>, 0, <<0>>) : x.kind = "obj"} }

InitArgs ==
    /\ InitBootVars
    /\ InitThrVars
    /\ InitLibraryRegistry
    /\ InitCallVars
    /\ objs \in ArgsHeaps
    /\ lastOp = [op |-> "", obj |-> 0, name |-> "", args |-> << >>,
                 rpcs |-> << >>, kind |-> "None", val |-> 0, sent |-> << >>]
    /\ nops = 0
    /\ entry_points = NoCache

\* the first method(*args) on such a heap
FirstMethodCall ==
    /\ nops = 0
    /\ MethodCall

\* one method invoked on objects that were read before
NextArgs ==
    \/ FirstMethodCall

SpecArgs == InitArgs /\ [][NextArgs]_vars

\* ------------------------------------------------------------------------
\* Properties of the registry (SpecRegistry)
\* ------------------------------------------------------------------------

\* positions of the candidates that are present in the table
Hits(table, classnames) ==
    {i \in 1..Len(classnames) : classnames[i] \in DOMAIN table}

Least(S) == CHOOSE i \in S : \A j \in S : i <= j

Greatest(S) == CHOOSE i \in S : \A j \in S : j <= i

\* C1: every Registry.resolve call (a step that is no register call) returns
\* the class bound to the first candidate (in list order) that is present in
\* the table, whatever the later candidates are bound to and whatever the
\* registration order was; it raises the no-mapping error exactly when no
\* candidate is in the table.
C1_ResolveFirstPresent ==
    [][(loaded /\ regLog' = regLog) =>
          LET hits == Hits(mappings, resolveArg')
          IN  /\ (resolveOut' = NoMapping) <=> (hits = {})
              /\ hits # {} =>
                    resolveOut' = mappings[resolveArg'[Least(hits)]]]_vars

\* C1 witness: "B" is unbound, "A" and the root type are bound to different
\* classes, "A" was registered after the root type, and the resolve of
\* <<"B", "A", root>> returned the class of "A".
C1_Witness ==
    /\ resolveArg = <<"B", "A", RootType>>
    /\ "B" \notin DOMAIN mappings
    /\ "A" \in DOMAIN mappings
    /\ RootType \in DOMAIN mappings
    /\ mappings["A"] # mappings[RootType]
    /\ resolveOut = mappings["A"]

\* C2: after any sequence of register calls every name is bound to the class
\* of the most recent register call for that name, and a name never
\* registered is unbound; so a register call for one name leaves every other
\* binding as its own last registration made it.
C2_LastRegistrationWins ==
    \A classname \in RegNames :
        LET calls == {i \in 1..Len(regLog) : regLog[i][2] = classname}
        IN  IF calls = {}
            THEN classname \notin DOMAIN mappings
            ELSE /\ classname \in DOMAIN mappings
                 /\ mappings[classname] = regLog[Greatest(calls)][1]

\* C2 witness: "A" was registered twice with different classes after the root
\* type; "A" is bound to the later class and the root binding is untouched.
C2_Witness ==
    /\ Len(regLog) = 3
    /\ regLog[2] = <<"X", "A">>
    /\ regLog[3] = <<"Object", "A">>
    /\ mappings["A"] = "Object"
    /\ mappings[RootType] = "Object"

\* C3: once gadget.mapping is imported the registry binds the root type
\* 'java.lang.Object' whatever register calls follow, so the resolve of a
\* candidate list that contains the root type never raises the no-mapping
\* error.
C3_RootAlwaysBound ==
    loaded =>
        /\ RootType \in DOMAIN mappings
        /\ \A classnames \in SeqsUpTo(RegNames, MaxNames) :
              (\E i \in 1..Len(classnames) : classnames[i] = RootType)
                  => Resolve(mappings, classnames) # NoMapping
        /\ (resolveOut # None
              /\ \E i \in 1..Len(resolveArg) : resolveArg[i] = RootType)
                  => resolveOut # NoMapping

\* C3 witness: after two more register calls (one of them for another name,
\* one re-binding the root type) a resolve whose only bound candidate is the
\* root type returned the root binding.
C3_Witness ==
    /\ loaded
    /\ Len(regLog) = 3
    /\ regLog[2][2] = "A"
    /\ regLog[3] = <<"X", RootType>>
    /\ resolveArg = <<"B", RootType>>
    /\ "B" \notin DOMAIN mappings
    /\ resolveOut = "X"

\* ------------------------------------------------------------------------
\* Properties of the call layer (SpecCall)
\* ------------------------------------------------------------------------

\* C4: when the decoded response has success false, the call fails with the
\* remote error (RuntimeError) carrying the response message, or a generic
\* message when the response key is absent; it neither returns a value nor
\* fails with another kind of error.
C4_RemoteErrorOnFailure ==
    (pc = "done" /\ "success" \in DOMAIN response /\ ~response.success) =>
        /\ outcome.kind = "RuntimeError"
        /\ "response" \in DOMAIN response => outcome.value = response.response

\* C5: every call invokes socket.send exactly once before it reads, reads at
\* most one length prefix, and has sent exactly once when it ends, whether it
\* returns or fails.
C5_OneRoundTrip ==
    /\ nsend <= 1
    /\ nrecvlen <= 1
    /\ pc \in {"recvlen", "recvbody", "done"} => nsend = 1
    /\ pc = "send" => nsend = 0 /\ nrecvlen = 0

\* C5 witness: the second call on the connection failed on a short payload,
\* after one send and one length prefix.
C5_Witness ==
    /\ pc = "done"
    /\ ncalls = 2
    /\ outcome = WrongLength
    /\ nsend = 1
    /\ nrecvlen = 1

\* C6: when a read returns no byte (the peer closed the stream) before the
\* declared number of payload bytes is accumulated, the call fails with the
\* wrong-message-length error and the short payload is not decoded.
C6_ShortPayloadRejected ==
    (pc = "done" /\ length >= 0 /\ Len(result) < length /\ zeroRead) =>
        /\ outcome = WrongLength
        /\ response = EmptyDict

\* C6 witness: 5 payload bytes declared, 3 accumulated, then a read of no byte.
C6_Witness ==
    /\ pc = "done"
    /\ length = 5
    /\ Len(result) = 3
    /\ zeroRead
    /\ outcome = WrongLength

\* C7: whatever non-empty chunks the reads deliver a well-formed response in
\* (also chunks that cut the 4-byte prefix), the call ends as it does when the
\* whole response comes in one read.
C7_ChunkingIrrelevant ==
    (pc = "done" /\ reply # << >> /\ ~zeroRead /\ outcome.kind # "socket.error") =>
        outcome = Decode(reply, Len(reply))

\* C8: once the call reads, the transport holds the complete message: a
\* 4-byte big-endian length followed by exactly that many bytes, the request.
C8_WholeMessageBeforeRead ==
    (pc \in {"recvlen", "recvbody"} \/ (pc = "done" /\ nrecvlen > 0)) =>
        /\ Len(outbound) >= 4
        /\ Unpack(SubSeq(outbound, 1, 4)) = Len(outbound) - 4
        /\ SubSeq(outbound, 5, Len(outbound)) = request

\* ------------------------------------------------------------------------
\* Properties of the remote objects (SpecObject)
\* ------------------------------------------------------------------------

\* how many times a remote call occurs among those an operation issued
Count(rpcs, name) == Cardinality({i \in 1..Len(rpcs) : rpcs[i] = name})

\* C9: _getentrypoint on an object with an empty path issues no remote call,
\* returns the entry point and changes nothing; on one with a non-empty path
\* it issues exactly one pushObject call and, when that call answers, sets
\* the entry point to the answer, clears the path and returns the answer (when
\* it fails, the object is left as it was); no operation changes the entry
\* point of an object whose path is empty or gives it a path again, so every
\* later call returns the promoted entry point with no round trip.
C9_EntryPointIdempotent ==
    [][/\ lastOp'.op = "_getentrypoint" =>
            LET id == lastOp'.obj
            IN  IF objs[id].path = << >>
                THEN /\ lastOp'.rpcs = << >>
                     /\ lastOp'.kind = "ep"
                     /\ lastOp'.val = objs[id].entry_point
                     /\ objs' = objs
                ELSE /\ lastOp'.rpcs = <<"pushObject">>
                     /\ IF lastOp'.kind = "ep"
                        THEN objs' = [objs EXCEPT ![id].entry_point = lastOp'.val,
                                                  ![id].path = << >>]
                        ELSE objs' = objs
       /\ \A id \in DOMAIN objs :
             objs[id].path = << >> =>
                 /\ objs'[id].path = << >>
                 /\ objs'[id].entry_point = objs[id].entry_point]_vars

\* C9 witness: an object created with a non-empty path was promoted by a
\* first call (its entry point is one a push answered with) and a later call
\* returned that entry point without any remote call.
C9_Witness ==
    /\ lastOp.op = "_getentrypoint"
    /\ lastOp.rpcs = << >>
    /\ lastOp.kind = "ep"
    /\ lastOp.val \in PushedEntryPoints
    /\ objs[lastOp.obj].entry_point = lastOp.val
    /\ objs[lastOp.obj].path = << >>

\* C10: a list fetch (getFields, getMethods) is issued only by an operation
\* on an object whose cache of that kind is not populated, and at most once
\* by one operation; a populated cache stays populated with the same names.
\* So each list is fetched successfully at most once per object and no fetch
\* follows a successful one.
C10_ListsFetchedOnce ==
    [][/\ Count(lastOp'.rpcs, "getFields") <= 1
       /\ Count(lastOp'.rpcs, "getMethods") <= 1
       /\ Count(lastOp'.rpcs, "getFields") = 1 =>
             /\ lastOp'.obj \in DOMAIN objs
             /\ objs[lastOp'.obj].field_cache = NoCache
       /\ Count(lastOp'.rpcs, "getMethods") = 1 =>
             /\ lastOp'.obj \in DOMAIN objs
             /\ objs[lastOp'.obj].method_cache = NoCache
       /\ \A id \in DOMAIN objs :
             /\ objs[id].field_cache # NoCache =>
                   /\ objs'[id].field_cache # NoCache
                   /\ DOMAIN objs'[id].field_cache[1] = DOMAIN objs[id].field_cache[1]
             /\ objs[id].method_cache # NoCache =>
                   objs'[id].method_cache = objs[id].method_cache]_vars

\* C10 witness: field "f" of an object was read and is materialized, and the
\* read of another field "g" that followed returned the field after one
\* getTypes call and no list fetch.
C10_Witness ==
    /\ lastOp.op = "__getattr__"
    /\ lastOp.name = "g"
    /\ lastOp.kind = "obj"
    /\ Count(lastOp.rpcs, "getFields") = 0
    /\ Count(lastOp.rpcs, "getTypes") = 1
    /\ objs[lastOp.obj].field_cache # NoCache
    /\ objs[lastOp.obj].field_cache[1]["f"].tag = "obj"
    /\ objs[lastOp.obj].field_cache[1]["g"].tag = "obj"

\* the entry of a field in the field cache of an object, when the cache is
\* populated and lists the field: <<entry>>, otherwise << >>
Entry(h, id, name) ==
    IF id \in DOMAIN h /\ h[id].field_cache # NoCache
          /\ name \in DOMAIN h[id].field_cache[1]
    THEN <<h[id].field_cache[1][name]>>
    ELSE << >>

\* C11: an entry of a field cache that holds an index changes only by a read
\* of that field, which issued exactly one getTypes call, and then holds what
\* Service.get_field returned; an entry that holds no index never changes
\* again.  A read issues at most one getTypes call, and only when the entry
\* holds an index (or the list was not fetched yet); a read that returns,
\* returns the proxy the entry holds.  So the reads of one field issue one
\* answered type-list fetch and all return the same proxy.
C11_FieldMaterializedOnce ==
    [][/\ \A id \in DOMAIN objs, name \in Names :
             LET e == Entry(objs, id, name)
             IN  e # << >> =>
                    /\ Entry(objs', id, name) # << >>
                    /\ e[1].tag # "int" => Entry(objs', id, name) = e
                    /\ (e[1].tag = "int" /\ Entry(objs', id, name) # e) =>
                          /\ Entry(objs', id, name)[1].tag # "int"
                          /\ lastOp'.op = "__getattr__"
                          /\ lastOp'.obj = id
                          /\ lastOp'.name = name
                          /\ Count(lastOp'.rpcs, "getTypes") = 1
       /\ lastOp'.op = "__getattr__" =>
             LET e == Entry(objs, lastOp'.obj, lastOp'.name)
                 f == Entry(objs', lastOp'.obj, lastOp'.name)
             IN  /\ Count(lastOp'.rpcs, "getTypes") <= 1
                 /\ (e # << >> /\ e[1].tag # "int") =>
                       Count(lastOp'.rpcs, "getTypes") = 0
                 /\ lastOp'.kind = "obj" =>
                       /\ f # << >>
                       /\ f[1].tag = "obj"
                       /\ f[1].val = lastOp'.val]_vars

\* C11 witness: a read of field "g" returned the proxy its entry holds after
\* no remote call at all: an earlier read had materialized the entry.
C11_Witness ==
    /\ lastOp.op = "__getattr__"
    /\ lastOp.name = "g"
    /\ lastOp.kind = "obj"
    /\ lastOp.rpcs = << >>
    /\ Entry(objs, lastOp.obj, "g") # << >>
    /\ Entry(objs, lastOp.obj, "g")[1].tag = "obj"
    /\ Entry(objs, lastOp.obj, "g")[1].val = lastOp.val

\* C12: once a read of a field has materialized its entry, every later read
\* of that field on that object issues no remote call at all, whatever class
\* the proxy has.
C12_LaterReadsNoCall ==
    [][(/\ lastOp'.op = "__getattr__"
        /\ Entry(objs, lastOp'.obj, lastOp'.name) # << >>
        /\ Entry(objs, lastOp'.obj, lastOp'.name)[1].tag = "obj")
          => lastOp'.rpcs = << >>]_vars

\* C12 as amended: once a read of a field has materialized its entry, a later
\* read of that field on that object issues no list fetch and no type-list
\* fetch; it issues no remote call at all when the proxy is no value wrapper,
\* and exactly one getValue call when it is an Integer, Boolean or String.
C12_LaterReadsOnlyRefresh ==
    [][(/\ lastOp'.op = "__getattr__"
        /\ Entry(objs, lastOp'.obj, lastOp'.name) # << >>
        /\ Entry(objs, lastOp'.obj, lastOp'.name)[1].tag = "obj")
          => LET field == Entry(objs, lastOp'.obj, lastOp'.name)[1].val
             IN  /\ lastOp'.rpcs = (IF objs[field].cls \in ValueClasses
                                    THEN <<"getValue">> ELSE << >>)
                 /\ Len(objs') = Len(objs)
                 /\ lastOp'.kind \in {"obj", "RuntimeError"}
                 /\ lastOp'.kind = "obj" => lastOp'.val = field]_vars

\* C12 witness: a read of a field whose entry was materialized before (no
\* getFields, no getTypes) returned an Integer proxy after one getValue call.
C12_Witness ==
    /\ lastOp.op = "__getattr__"
    /\ lastOp.kind = "obj"
    /\ lastOp.rpcs = <<"getValue">>
    /\ objs[lastOp.val].cls = "Integer"
    /\ Entry(objs, lastOp.obj, lastOp.name) # << >>
    /\ Entry(objs, lastOp.obj, lastOp.name)[1].val = lastOp.val

\* C13: Service.get_field called with entry point -1, whatever the path,
\* issues no remote call and returns the null proxy (an instance of Null).
C13_GetFieldOfNoObject ==
    (lastOp.op = "get_field" /\ lastOp.args[1].val = -1) =>
        /\ lastOp.rpcs = << >>
        /\ lastOp.kind = "obj"
        /\ objs[lastOp.val].cls = "Null"

\* C14: a Null is bound to entry point -1 with an empty path whatever it was
\* constructed with; listing its fields and methods issues no remote call and
\* gives empty collections (so __dir__ gives no name); looking up a name on it
\* issues no remote call.
C14_NullProxy ==
    /\ \A id \in DOMAIN objs :
          objs[id].cls = "Null" =>
              /\ objs[id].entry_point = -1
              /\ objs[id].path = << >>
              /\ GetFields(objs, id) = {Res(objs, << >>, "names", 0)}
              /\ GetMethods(objs, id) = {Res(objs, << >>, "names", 0)}
    /\ (lastOp.op \in {"__dir__", "__getattr__"} /\ objs[lastOp.obj].cls = "Null") =>
          lastOp.rpcs = << >>
    /\ (lastOp.op = "__dir__" /\ objs[lastOp.obj].cls = "Null") =>
          /\ lastOp.kind = "names"
          /\ lastOp.val = 0

ObjectOps == {"__getattr__", "__dir__", "_getentrypoint"}

\* the remote calls of an operation that answered, when its last one failed
Answered(rpcs) == SubSeq(rpcs, 1, Len(rpcs) - 1)

\* C19: when an operation on an object fails because a remote call failed,
\* the field cache, the method cache, the entry point and the path of every
\* object are what they were before the operation.
C19_FailureChangesNothing ==
    [][(lastOp'.op \in ObjectOps /\ lastOp'.kind = "RuntimeError") =>
          \A id \in DOMAIN objs :
             /\ objs'[id].field_cache = objs[id].field_cache
             /\ objs'[id].method_cache = objs[id].method_cache
             /\ objs'[id].entry_point = objs[id].entry_point
             /\ objs'[id].path = objs[id].path]_vars

\* C19 as amended: when an operation on an object fails because a remote call
\* failed, the entry point and the path of every object are what they were
\* before the operation, every other object is unchanged, and the caches of
\* the object differ only by what the remote calls that answered before the
\* failed one stored: the field list (every entry an index) after a getFields
\* that answered, the method list after a getMethods that answered, the proxy
\* of the field read after its getTypes answered.  When the failed call is
\* the first remote call of the operation, nothing has changed.
C19_FailureKeepsAnsweredCalls ==
    [][(lastOp'.op \in ObjectOps /\ lastOp'.kind = "RuntimeError") =>
          LET id == lastOp'.obj
              answered == Answered(lastOp'.rpcs)
          IN  /\ \A o \in DOMAIN objs :
                    /\ objs'[o].entry_point = objs[o].entry_point
                    /\ objs'[o].path = objs[o].path
                    /\ o # id => objs'[o] = objs[o]
              /\ Len(lastOp'.rpcs) = 1 => objs' = objs
              /\ Count(answered, "getMethods") = 0 =>
                    objs'[id].method_cache = objs[id].method_cache
              /\ (Count(answered, "getFields") = 0
                    /\ Count(answered, "getTypes") = 0) =>
                    objs'[id].field_cache = objs[id].field_cache
              /\ objs[id].field_cache = NoCache =>
                    \/ objs'[id].field_cache = NoCache
                    \/ /\ Count(answered, "getFields") = 1
                       /\ \A name \in DOMAIN objs'[id].field_cache[1] :
                             \/ objs'[id].field_cache[1][name].tag = "int"
                             \/ /\ name = lastOp'.name
                                /\ Count(answered, "getTypes") = 1
              /\ objs[id].field_cache # NoCache =>
                    \A name \in Names :
                       \/ Entry(objs', id, name) = Entry(objs, id, name)
                       \/ /\ name = lastOp'.name
                          /\ Entry(objs, id, name)[1].tag = "int"
                          /\ Count(answered, "getTypes") = 1]_vars

\* C19 witness: the read of a field failed at its getTypes call after the
\* getFields call had answered: the object now holds the field list.
C19_Witness ==
    /\ lastOp.op = "__getattr__"
    /\ lastOp.kind = "RuntimeError"
    /\ lastOp.rpcs = <<"getFields", "getTypes">>
    /\ objs[lastOp.obj].field_cache # NoCache
    /\ lastOp.name \in DOMAIN objs[lastOp.obj].field_cache[1]
    /\ objs[lastOp.obj].field_cache[1][lastOp.name].tag = "int"

\* ------------------------------------------------------------------------
\* Properties of invocations and assignments (SpecInvoke)
\* ------------------------------------------------------------------------

\* the position of the first remote call of a name among those issued, 0
\* when there is none
First(rpcs, name) ==
    IF Count(rpcs, name) = 0 THEN 0
    ELSE Least({i \in 1..Len(rpcs) : rpcs[i] = name})

\* C16: the call of a Method that holds a name issues the by-name remote call
\* (invokeMethodByName) and never the by-index one; the call of a Method that
\* holds an index issues the by-index remote call (invokeMethod) and never
\* the by-name one.  A call whose argument promotions all succeeded issues
\* its remote call.
C16_InvokeByNameOrIndex ==
    lastOp.op = "__call__" =>
        LET by == IF lastOp.args[1].tag = "name"
                  THEN "invokeMethodByName" ELSE "invokeMethod"
            other == IF lastOp.args[1].tag = "name"
                     THEN "invokeMethod" ELSE "invokeMethodByName"
        IN  /\ Count(lastOp.rpcs, other) = 0
            /\ Count(lastOp.rpcs, by) <= 1
            /\ lastOp.kind # "RuntimeError" => Count(lastOp.rpcs, by) = 1

\* C17: the invocation a method call or a constructor call sends has one
\* argument per argument of the call, in the same positions, each an entry
\* point (-1 or more): the entry point of the object when the argument is an
\* object, -1 when it is None or was promoted to no object.  A call whose
\* remote calls all succeeded has sent its invocation.
C17_ArgumentsSentinel ==
    lastOp.op \in {"__call__", "new"} =>
        LET args == Tail(lastOp.args)
        IN  /\ lastOp.kind # "RuntimeError" => Len(lastOp.sent) = 1
            /\ \A k \in DOMAIN lastOp.sent :
                  LET arguments == lastOp.sent[k].arguments
                  IN  /\ Len(arguments) = Len(args)
                      /\ \A i \in DOMAIN arguments :
                            /\ arguments[i] # << >>
                            /\ arguments[i][1] >= -1
                            /\ args[i].tag = "None" => arguments[i][1] = -1
                            /\ args[i].tag = "obj" =>
                                  arguments[i][1] = objs[args[i].val].entry_point

\* C18: the assignment of an int to a field of an object whose entry is
\* materialized issues a pushInt call (the promotion), later a setValue call,
\* and returns without error unless one of its remote calls failed.
C18_AssignPromotesThenSets ==
    (/\ lastOp.op = "__setattr__"
     /\ lastOp.args[1].tag = "int"
     /\ Entry(objs, lastOp.obj, lastOp.name) # << >>
     /\ Entry(objs, lastOp.obj, lastOp.name)[1].tag = "obj"
     /\ lastOp.kind # "RuntimeError") =>
        /\ lastOp.kind = "return"
        /\ First(lastOp.rpcs, "pushInt") > 0
        /\ First(lastOp.rpcs, "setValue") > First(lastOp.rpcs, "pushInt")

\* ------------------------------------------------------------------------
\* Properties of the connection after a failure (SpecCall)
\* ------------------------------------------------------------------------

\* C20: once a call on the Protocol instance has failed on a short length
\* prefix, a short payload or a closed stream, no later call on that instance
\* gets past its socket.send: none has written a request (pc "recvlen") or
\* read from the socket (pc "recvbody").
C20_BrokenConnectionUnused ==
    broken => pc \notin {"recvlen", "recvbody"}

\* ------------------------------------------------------------------------
\* Properties of the two caches (SpecObject)
\* ------------------------------------------------------------------------

\* the name looked up is a field of the object after the step
NameIsField ==
    /\ objs'[lastOp'.obj].field_cache # NoCache
    /\ lastOp'.name \in DOMAIN objs'[lastOp'.obj].field_cache[1]

\* C25: a lookup whose name is a field of the object issues no getMethods
\* call and leaves the method cache as it was; a getMethods call is issued,
\* and the method cache of an object set, only by a listing or by a lookup
\* whose name is not among the fields fetched, only for the object of the
\* operation and only when its method cache was not populated.
C25_MethodListOnlyWhenNeeded ==
    [][nops' = nops + 1 =>
          /\ (lastOp'.op = "__getattr__" /\ NameIsField) =>
                /\ Count(lastOp'.rpcs, "getMethods") = 0
                /\ objs'[lastOp'.obj].method_cache = objs[lastOp'.obj].method_cache
          /\ Count(lastOp'.rpcs, "getMethods") > 0 =>
                /\ \/ lastOp'.op = "__dir__"
                   \/ /\ lastOp'.op = "__getattr__"
                      /\ objs'[lastOp'.obj].field_cache # NoCache
                      /\ ~NameIsField
                /\ Count(lastOp'.rpcs, "getMethods") = 1
                /\ objs[lastOp'.obj].method_cache = NoCache
          /\ \A o \in DOMAIN objs :
                objs'[o].method_cache # objs[o].method_cache =>
                   /\ o = lastOp'.obj
                   /\ Count(lastOp'.rpcs, "getMethods") = 1
                   /\ objs[o].method_cache = NoCache]_vars

\* C25 happens: the lookup of a field has returned the object of the field,
\* the field list is fetched and the method list is not
C25_Witness ==
    /\ lastOp.op = "__getattr__"
    /\ lastOp.kind = "obj"
    /\ objs[lastOp.obj].field_cache # NoCache
    /\ lastOp.name \in DOMAIN objs[lastOp.obj].field_cache[1]
    /\ objs[lastOp.obj].method_cache = NoCache

\* ------------------------------------------------------------------------
\* Properties of the construction of an Application (SpecBoot)
\* ------------------------------------------------------------------------

\* the positions of the history where the event is
Where(e) == {i \in DOMAIN wire : wire[i] = e}

\* list_applications returned a list and the identifier is in it
AppListed == apps # << >> /\ app \in {apps[1][i] : i \in DOMAIN apps[1]}

\* C21: an Application for an identifier that list_applications did not
\* return in its list opens no persistent connection, sends no request that
\* carries the identifier and ends failed; when the persistent connection is
\* opened, the listApps request was sent and the transient connection was
\* closed before, and the identifier is in the list.
C21_UnlistedOpensNothing ==
    /\ ~AppListed =>
          /\ psock = "none"
          /\ \A i \in DOMAIN wire : wire[i].app # app
          /\ appPc \in {"idle", "list_connect", "list_call", "assert",
                       "failed"}
    /\ \A i \in Where(Event("connect", "psock", "", "")) :
          /\ AppListed
          /\ \E j \in Where(Event("request", "sock", "", "listApps")) :
             \E k \in Where(Event("close", "sock", "", "")) : j < k /\ k < i
    /\ \A i \in DOMAIN wire : wire[i].conn = "psock" =>
          \E j \in Where(Event("connect", "psock", "", "")) : j <= i

\* C21 happens: the listing returned a list without the identifier and the
\* construction has failed
C21_Witness ==
    /\ appPc = "failed"
    /\ apps # << >>
    /\ ~AppListed
    /\ Where(Event("close", "sock", "", "")) # {}

\* C22: the connection list_applications opened is closed once the function
\* is left, whether it returned or raised.
C22_TransientClosedOnExit ==
    sock = "open" => appPc = "list_call"

\* ------------------------------------------------------------------------
\* Properties of calls from several threads (SpecThreads)
\* ------------------------------------------------------------------------

\* the bytes a thread has read in its call
BytesRead(t) == {tprefix[t][i] : i \in DOMAIN tprefix[t]}
                    \cup {tresult[t][i] : i \in DOMAIN tresult[t]}

\* C23: as long as no call was started on the instance while another one was
\* in progress, every byte a call has read is a byte of the answer to its own
\* request, and a call that has ended has returned the response to its own
\* request.
C23_SequentialCallerOwnResponse ==
    ~raced =>
        \A t \in Threads :
            /\ \A b \in BytesRead(t) : b.owner = treq[t]
            /\ tpc[t] = "done" =>
                  toutcome[t] = [kind |-> "return", value |-> treq[t]]

\* C23 happens: with two calls in progress together, a caller has returned the
\* response to the request of the other caller
C23_Witness ==
    /\ raced
    /\ \E t \in Threads : \E u \in Threads \ {t} :
          /\ tpc[t] = "done"
          /\ toutcome[t].kind = "return"
          /\ toutcome[t].value = treq[u]
          /\ treq[u] # treq[t]
          /\ \A b \in BytesRead(t) : b.owner = treq[u]

\* ------------------------------------------------------------------------
\* Properties of the resolution of arguments (SpecArgs)
\* ------------------------------------------------------------------------

\* the remote calls that promote a value or push an object
IsPush(rpc) == rpc \in {"pushInt", "pushObject"}
IsPushInt(rpc) == rpc = "pushInt"
IsPushObject(rpc) == rpc = "pushObject"

\* per argument, the remote call its resolution needs on heap h: pushInt for
\* an int, pushObject for an object whose path is not empty and that no
\* earlier argument is, "" for the others
Needs(h, args) ==
    [i \in DOMAIN args |->
        IF args[i].tag = "int" THEN "pushInt"
        ELSE IF /\ args[i].tag = "obj"
                /\ Len(h[args[i].val].path) > 0
                /\ \A j \in 1..(i - 1) : args[j] # args[i]
        THEN "pushObject"
        ELSE ""]

\* the objects among the arguments whose path is not empty on heap h
PathArgs(h, args) ==
    {args[i].val : i \in {j \in DOMAIN args : /\ args[j].tag = "obj"
                                             /\ Len(h[args[j].val].path) > 0}}

\* the step is a method(*args) that has sent its invocation
Invoked == /\ nops' = nops + 1
           /\ lastOp'.op = "__call__"
           /\ Len(lastOp'.sent) = 1

C26_EnumeratesOnceAndSucceeds ==
    [][(/\ nops' = nops + 1
        /\ lastOp'.op = "get_entry_points"
        /\ lastOp'.kind # "RuntimeError") =>
          /\ lastOp'.kind = "return"
          /\ entry_points' # NoCache
          /\ \A i \in DOMAIN entry_points'[1] : entry_points'[1][i] # << >>
          /\ entry_points = NoCache =>
                /\ Count(lastOp'.rpcs, "getEntryPoints") = 1
                /\ Count(lastOp'.rpcs, "getTypes") = Len(entry_points'[1])
          /\ entry_points # NoCache =>
                /\ Count(lastOp'.rpcs, "getEntryPoints") = 0
                /\ entry_points' = entry_points]_vars

\* ------------------------------------------------------------------------
\* Properties of the address of an assignment (SpecInvoke)
\* ------------------------------------------------------------------------

\* the invocation is a value-set call addressed at a field of the object
AtFieldSlot(invocation, object) ==
    /\ invocation.rpc = "setValue"
    /\ invocation.entry_point = object.entry_point
    /\ \E index \in 0..1 : invocation.path = object.path \o <<index>>

\* C27: the assignment of an int or an object to a field of an object whose
\* entry is materialized issues, unless a remote call fails, a value-set call,
\* and every value-set call it issues is addressed at the entry point of the
\* owner and the path of the owner followed by the index of the field.
C27_SetValueAtFieldSlot ==
    (/\ lastOp.op = "__setattr__"
     /\ lastOp.args[1].tag \in {"int", "obj"}
     /\ Entry(objs, lastOp.obj, lastOp.name) # << >>
     /\ Entry(objs, lastOp.obj, lastOp.name)[1].tag = "obj"
     /\ lastOp.kind # "RuntimeError") =>
        /\ lastOp.sent # << >>
        /\ \A k \in DOMAIN lastOp.sent :
              AtFieldSlot(lastOp.sent[k], objs[lastOp.obj])

====
